---- MODULE Spec2Model ----
(***************************************************************************)
(* Rehabilitation Assistant (src/app.py).                                  *)
(*                                                                         *)
(* One browser session of the Streamlit page: main() is re-executed from   *)
(* top to bottom on the page load and after every user interaction.  The   *)
(* state is the three tables read by load_data(), the URL query            *)
(* parameters, the widget state Streamlit keeps for the session, and the   *)
(* locals and outputs of the last run of main() (the variable page).       *)
(*                                                                         *)
(* Data assumptions (the CSV files are not part of the source):            *)
(*   - symptom_id and test_id are unique, symptom names are distinct;      *)
(*   - test names are distinct (they are the keys of the checkboxes);      *)
(*   - no cell is empty except, possibly, an exercise's image.             *)
(***************************************************************************)
EXTENDS Integers, Sequences, FiniteSets, TLC

VARIABLES
    symptoms,        \* data/symptoms.csv, a sequence of rows
    tests,           \* data/tests.csv
    exercises,       \* data/exercises.csv
    query_params,    \* st.experimental_get_query_params(): key -> list of strings
    rendered,        \* main() has run at least once in this session
    selectbox,       \* session widget state of the body part selectbox: <<>> or <<name>>
    checkbox,        \* session widget state of the checkboxes: key -> BOOLEAN
    button,          \* the confirmation button was clicked for the current run
    page,            \* locals and outputs of the last run of main()
    diagnose_args,   \* arguments of a stand-alone run of the diagnosis loop
    diagnose_result  \* its outcome

vars == << symptoms, tests, exercises, query_params, rendered, selectbox,
           checkbox, button, page, diagnose_args, diagnose_result >>

---------------------------------------------------------------------------
(* Bounds of the modelled data.                                            *)

NumTests == 2

NumExercises == 3

---------------------------------------------------------------------------
(* Python and pandas helpers.                                              *)

\* x in list
Contains(list, x) == \E i \in DOMAIN list : list[i] = x

\* list.index(x), 1-based
IndexOf(list, x) == CHOOSE i \in DOMAIN list :
                        /\ list[i] = x
                        /\ \A j \in DOMAIN list : list[j] = x => i <= j

\* dict.get(key, default)
Get(d, key, default) == IF key \in DOMAIN d THEN d[key] ELSE default

\* Series.unique(): the distinct values in order of first appearance
RECURSIVE Unique(_)
Unique(list) ==
    IF list = <<>> THEN <<>>
    ELSE LET front == Unique(SubSeq(list, 1, Len(list) - 1))
             last  == list[Len(list)]
         IN IF Contains(front, last) THEN front ELSE Append(front, last)

\* A dict is a sequence of <<key, value>> pairs in insertion order.
HasKey(d, k) == \E i \in DOMAIN d : d[i][1] = k

DictGet(d, k) == d[CHOOSE i \in DOMAIN d : d[i][1] = k][2]

\* d[k] = v
DictSet(d, k, v) ==
    IF HasKey(d, k)
    THEN [i \in DOMAIN d |-> IF d[i][1] = k THEN <<k, v>> ELSE d[i]]
    ELSE Append(d, <<k, v>>)

DictKeys(d) == { d[i][1] : i \in DOMAIN d }

\* bool(x) of a string
Truthy(x) == x # ""

---------------------------------------------------------------------------
(* The tables load_data() can return.                                      *)

SymptomsTables ==
    { << [symptom_id |-> 1, symptom_name |-> "Knee Pain"],
         [symptom_id |-> 2, symptom_name |-> "Shoulder Pain"] >>,
      << [symptom_id |-> 2, symptom_name |-> "Shoulder Pain"],
         [symptom_id |-> 1, symptom_name |-> "Knee Pain"] >> }

SymptomIds == { 1, 2 }

Conditions == { "patellar_tendinopathy", "rotator_cuff_strain" }

TestRow(i, sid, cond) ==
    [ test_id             |-> i,
      symptom_id          |-> sid,
      test_name           |-> "Test " \o ToString(i),
      description         |-> "How to perform test " \o ToString(i),
      positive_indication |-> cond ]

TestsTables ==
    { [i \in 1..NumTests |-> TestRow(i, f[i][1], f[i][2])] :
        f \in [1..NumTests -> SymptomIds \X Conditions] }

\* The condition of the i-th exercise: two exercises for the first condition,
\* one for a condition no test indicates, one for the second condition.
ExerciseCondition(i) ==
    CASE i % 4 = 3 -> "ankle_sprain"
      [] i % 4 = 0 -> "rotator_cuff_strain"
      [] OTHER     -> "patellar_tendinopathy"

ExerciseRow(i, cond) ==
    [ exercise_name |-> "Exercise " \o ToString(i),
      description   |-> "How to perform exercise " \o ToString(i),
      sets          |-> i + 1,
      reps          |-> 5 * (i + 1),
      frequency     |-> "daily",
      condition     |-> cond,
      image         |-> IF i % 2 = 1 THEN "exercise_" \o ToString(i) \o ".png" ELSE "" ]

ExercisesTable ==
    [i \in 1..NumExercises |-> ExerciseRow(i, ExerciseCondition(i))]

\* The files present under pictures/.
PictureFiles == { "pictures/exercise_1.png" }

\* The URLs a session can be opened with.
BodyPartParams == { <<"Knee Pain">>, <<"Shoulder Pain">>, <<"NotARealPart">> }

FailedTestsParams == { <<"2">>, <<"1", "2">>, <<"1,2">> }

TestModeParams == { <<"true">>, <<"True">> }

QueryParams ==
    { [k \in ks |-> f[k]] :
        ks \in SUBSET {"body_part", "failed_tests", "test_mode"},
        f \in [ body_part    : BodyPartParams,
                failed_tests : FailedTestsParams,
                test_mode    : TestModeParams ] }

load_data ==
    { <<s, t, ExercisesTable>> : s \in SymptomsTables, t \in TestsTables }

---------------------------------------------------------------------------
(* Streamlit widgets: a widget returns the value the session holds for it, *)
(* or its default when the session holds none (its first draw).            *)

st_selectbox(options, index, state) ==
    IF state # <<>> THEN state[1] ELSE options[index]

st_checkbox(key, value, state) ==
    IF key \in DOMAIN state THEN state[key] ELSE value

---------------------------------------------------------------------------
(* generate_pdf: the document as its sections.                             *)

\* condition.replace('_', ' ').capitalize()
ConditionLabel(condition) ==
    CASE condition = "patellar_tendinopathy" -> "Patellar tendinopathy"
      [] condition = "rotator_cuff_strain"   -> "Rotator cuff strain"
      [] OTHER                               -> condition

\* f"{exercise['sets']}x{exercise['reps']}"
SetsByReps(exercise) == ToString(exercise.sets) \o "x" \o ToString(exercise.reps)

\* Faulty variant of FailedTests: the filter on the answer is dropped.
AllTestNames(test_results) ==
    [i \in DOMAIN test_results |-> test_results[i][1]]

\* [test_name for test_name, failed in test_results.items() if failed]
FailedTests(test_results) ==
    LET failed == SelectSeq(test_results, LAMBDA kv : kv[2])
    IN  [i \in DOMAIN failed |-> failed[i][1]]

PdfFailedTestsSection(test_results) ==
    LET failed_tests == FailedTests(test_results)
    IN  IF failed_tests # <<>>
        THEN [i \in DOMAIN failed_tests |-> "- " \o failed_tests[i]]
        ELSE << "No tests were failed." >>

\* Faulty variant of PdfDiagnosticSection: no fallback sentence.
PdfDiagnosticSectionNoFallback(conditions) ==
    { "- " \o ConditionLabel(c) : c \in conditions }

\* The paragraphs follow the iteration order of a Python set, which is
\* unspecified: the section is the set of its paragraphs.
PdfDiagnosticSection(conditions) ==
    IF conditions # {}
    THEN { "- " \o ConditionLabel(c) : c \in conditions }
    ELSE { "No specific conditions identified." }

\* Faulty variant of PdfTableData: reps and sets are swapped.
PdfTableDataRepsBySets(recommended_exercises) ==
    << << "Exercise", "Description", "Sets x Reps", "Frequency" >> >>
    \o [i \in DOMAIN recommended_exercises |->
          << recommended_exercises[i].exercise_name,
             recommended_exercises[i].description,
             ToString(recommended_exercises[i].reps) \o "x"
                \o ToString(recommended_exercises[i].sets),
             recommended_exercises[i].frequency >>]

PdfTableData(recommended_exercises) ==
    << << "Exercise", "Description", "Sets x Reps", "Frequency" >> >>
    \o [i \in DOMAIN recommended_exercises |->
          << recommended_exercises[i].exercise_name,
             recommended_exercises[i].description,
             SetsByReps(recommended_exercises[i]),
             recommended_exercises[i].frequency >>]

generate_pdf(test_results, conditions, recommended_exercises) ==
    [ title        |-> "Rehabilitation Assistant Report",
      failed_tests |-> PdfFailedTestsSection(test_results),
      diagnostic   |-> PdfDiagnosticSection(conditions),
      table_data   |-> IF recommended_exercises # <<>>
                       THEN PdfTableData(recommended_exercises)
                       ELSE <<>>,
      advice_text  |-> IF recommended_exercises # <<>>
                       THEN <<>>
                       ELSE << "No exercises recommended." >> ]

---------------------------------------------------------------------------
(* main, step by step.                                                     *)

\* Faulty variant of TestMode: any value of the parameter counts.
TestModeIfPresent(q) == "test_mode" \in DOMAIN q

TestMode(q) == Get(q, "test_mode", << "" >>)[1] = "true"

BodyParts(symptoms_table) ==
    Unique([i \in DOMAIN symptoms_table |-> symptoms_table[i].symptom_name])

RequestedBodyPart(q, body_parts) == Get(q, "body_part", << body_parts[1] >>)[1]

Warning(q, body_parts) ==
    LET default_body_part == RequestedBodyPart(q, body_parts)
    IN  IF ~Contains(body_parts, default_body_part)
        THEN << "Invalid body part '" \o default_body_part
                \o "' specified in URL. Defaulting to '" \o body_parts[1] \o "'." >>
        ELSE <<>>

\* Faulty variant of DefaultBodyPart: falls back to the last body part.
DefaultBodyPartLast(q, body_parts) ==
    LET default_body_part == RequestedBodyPart(q, body_parts)
    IN  IF ~Contains(body_parts, default_body_part)
        THEN body_parts[Len(body_parts)]
        ELSE default_body_part

DefaultBodyPart(q, body_parts) ==
    LET default_body_part == RequestedBodyPart(q, body_parts)
    IN  IF ~Contains(body_parts, default_body_part)
        THEN body_parts[1]
        ELSE default_body_part

\* symptoms[symptoms['symptom_name'] == selected_body_part]['symptom_id'].iloc[0]
SymptomId(symptoms_table, selected_body_part) ==
    SelectSeq(symptoms_table,
              LAMBDA s : s.symptom_name = selected_body_part)[1].symptom_id

\* Faulty variant of RelevantTests: the filter reads the wrong column.
RelevantTestsByTestId(tests_table, symptom_id) ==
    SelectSeq(tests_table, LAMBDA t : t.test_id = symptom_id)

\* tests[tests['symptom_id'] == symptom_id]
RelevantTests(tests_table, symptom_id) ==
    SelectSeq(tests_table, LAMBDA t : t.symptom_id = symptom_id)

FailedTestIds(q) == Get(q, "failed_tests", <<>>)

\* Faulty variant of DefaultChecked: looks up the symptom's id.
DefaultCheckedBySymptomId(test, failed_test_ids) ==
    Contains(failed_test_ids, ToString(test.symptom_id))

DefaultChecked(test, failed_test_ids) ==
    Contains(failed_test_ids, ToString(test.test_id))

\* The loop of Step 2 over the first n relevant tests.
RECURSIVE TestResults(_, _, _, _)
TestResults(relevant_tests, failed_test_ids, state, n) ==
    IF n = 0 THEN <<>>
    ELSE LET test == relevant_tests[n]
         IN  DictSet(TestResults(relevant_tests, failed_test_ids, state, n - 1),
                     test.test_name,
                     st_checkbox(test.test_name,
                                 DefaultChecked(test, failed_test_ids), state))

\* The rows Step 2 writes, one per relevant test.
ShownTests(relevant_tests) ==
    [i \in DOMAIN relevant_tests |->
        << relevant_tests[i].test_name, relevant_tests[i].description >>]

Step3Reached(clicked, test_mode) == clicked \/ test_mode

\* Faulty variant of Diagnose: the answer is not read.
RECURSIVE DiagnoseEveryTest(_, _, _, _)
DiagnoseEveryTest(test_results, relevant_tests, n, conditions) ==
    IF n > Len(relevant_tests) THEN [error |-> "", conditions |-> conditions]
    ELSE IF ~HasKey(test_results, relevant_tests[n].test_name)
    THEN [error |-> "KeyError", conditions |-> {}]
    ELSE DiagnoseEveryTest(test_results, relevant_tests, n + 1,
                           conditions \cup {relevant_tests[n].positive_indication})

\* Variant of Diagnose reading test_results.get(name, False).
RECURSIVE DiagnoseDefensive(_, _, _, _)
DiagnoseDefensive(test_results, relevant_tests, n, conditions) ==
    IF n > Len(relevant_tests) THEN [error |-> "", conditions |-> conditions]
    ELSE IF /\ HasKey(test_results, relevant_tests[n].test_name)
            /\ DictGet(test_results, relevant_tests[n].test_name)
    THEN DiagnoseDefensive(test_results, relevant_tests, n + 1,
                           conditions \cup {relevant_tests[n].positive_indication})
    ELSE DiagnoseDefensive(test_results, relevant_tests, n + 1, conditions)

\* The loop of Step 3 from the n-th relevant test on, with the conditions
\* found so far; test_results[...] of a missing key raises KeyError, which
\* ends the run.
RECURSIVE Diagnose(_, _, _, _)
Diagnose(test_results, relevant_tests, n, conditions) ==
    IF n > Len(relevant_tests) THEN [error |-> "", conditions |-> conditions]
    ELSE IF ~HasKey(test_results, relevant_tests[n].test_name)
    THEN [error |-> "KeyError", conditions |-> {}]
    ELSE IF DictGet(test_results, relevant_tests[n].test_name)
    THEN Diagnose(test_results, relevant_tests, n + 1,
                  conditions \cup {relevant_tests[n].positive_indication})
    ELSE Diagnose(test_results, relevant_tests, n + 1, conditions)

\* Faulty variant of RecommendedExercises: the filter is dropped.
RecommendAllExercises(exercises_table, conditions) == exercises_table

\* exercises[exercises['condition'].isin(conditions)]
RecommendedExercises(exercises_table, conditions) ==
    SelectSeq(exercises_table, LAMBDA e : e.condition \in conditions)

ImageHtml(exercise) ==
    LET image_path == IF Truthy(exercise.image)
                      THEN "pictures/" \o exercise.image ELSE ""
    IN  IF Truthy(image_path) /\ image_path \in PictureFiles
        THEN "<img src=\"" \o image_path \o "\" style=\"height:100px;\">"
        ELSE ""

ExerciseData(recommended_exercises) ==
    [i \in DOMAIN recommended_exercises |->
        LET exercise == recommended_exercises[i]
        IN  ( "Name" :> exercise.exercise_name
           @@ "Description" :> exercise.description
           @@ "Sets x Reps" :> SetsByReps(exercise)
           @@ "Frequency" :> exercise.frequency
           @@ "Image" :> ImageHtml(exercise) )]

---------------------------------------------------------------------------
(* One run of main(): the page it renders and the locals it computes.      *)

\* Nothing rendered yet.
BlankPage ==
    [ headers               |-> <<>>,
      test_mode             |-> FALSE,
      warning               |-> <<>>,
      default_body_part     |-> "",
      selected_body_part    |-> "",
      symptom_id            |-> 0,
      relevant_tests        |-> <<>>,
      shown_tests           |-> <<>>,
      default_checked       |-> <<>>,
      test_results          |-> <<>>,
      error                 |-> "",
      conditions            |-> {},
      written               |-> {},
      recommended_exercises |-> <<>>,
      html_table            |-> <<>>,
      pdf                   |-> <<>>,
      download_button       |-> <<>> ]

\* Step 3, reached with the given results.
Step3(step2, exercises_table) ==
    LET diagnosis == Diagnose(step2.test_results, step2.relevant_tests, 1, {})
        conditions == diagnosis.conditions
        recommended_exercises == RecommendedExercises(exercises_table, conditions)
        shown == [step2 EXCEPT !.headers = Append(@, "Diagnostic"),
                               !.error = diagnosis.error]
    IN  IF diagnosis.error # "" THEN shown
        ELSE IF conditions # {}
        THEN [shown EXCEPT
                !.conditions = conditions,
                !.written =
                    { "Based on your symptoms, you may have the following conditions:",
                      "Here are the recommended exercises:" }
                    \cup { "- " \o ConditionLabel(c) : c \in conditions },
                !.headers = Append(@, "Your Rehabilitation Plan"),
                !.recommended_exercises = recommended_exercises,
                !.html_table = << ExerciseData(recommended_exercises) >>,
                !.pdf = << generate_pdf(step2.test_results, conditions,
                                        recommended_exercises) >>,
                !.download_button = << "rehabilitation_report.pdf" >>]
        ELSE [shown EXCEPT
                !.written =
                    { "No specific conditions identified. Please consult a healthcare professional." }]

main(symptoms_table, tests_table, exercises_table, q, sel_state, chk_state, clicked) ==
    LET test_mode == TestMode(q)
        body_parts == BodyParts(symptoms_table)
        default_body_part == DefaultBodyPart(q, body_parts)
        selected_body_part ==
            st_selectbox(body_parts, IndexOf(body_parts, default_body_part), sel_state)
        step1 == [BlankPage EXCEPT
                    !.headers = << "Step 1: Identify Your Pain Location" >>,
                    !.test_mode = test_mode,
                    !.warning = Warning(q, body_parts),
                    !.default_body_part = default_body_part,
                    !.selected_body_part = selected_body_part]
    IN  IF ~Truthy(selected_body_part) THEN step1
        ELSE
        LET symptom_id == SymptomId(symptoms_table, selected_body_part)
            relevant_tests == RelevantTests(tests_table, symptom_id)
            failed_test_ids == FailedTestIds(q)
            step2 == [step1 EXCEPT
                        !.headers = Append(@, "Step 2: Perform Physical Tests"),
                        !.symptom_id = symptom_id,
                        !.relevant_tests = relevant_tests,
                        !.shown_tests = ShownTests(relevant_tests),
                        !.default_checked =
                            TestResults(relevant_tests, failed_test_ids, <<>>,
                                        Len(relevant_tests)),
                        !.test_results =
                            TestResults(relevant_tests, failed_test_ids, chk_state,
                                        Len(relevant_tests))]
        IN  IF Step3Reached(clicked, test_mode)
            THEN Step3(step2, exercises_table)
            ELSE step2

---------------------------------------------------------------------------
(* The session.                                                            *)

\* Widget state Streamlit keeps after a run: the values of the widgets the
\* run drew; the state of a widget that was not drawn is dropped.
KeptCheckboxState(drawn) ==
    [k \in DictKeys(drawn.test_results) |-> DictGet(drawn.test_results, k)]

KeptSelectboxState(drawn) == << drawn.selected_body_part >>

Rerun(sel_state, chk_state, clicked) ==
    /\ page' = main(symptoms, tests, exercises, query_params,
                    sel_state, chk_state, clicked)
    /\ selectbox' = KeptSelectboxState(page')
    /\ checkbox' = KeptCheckboxState(page')
    /\ button' = clicked
    /\ rendered' = TRUE
    /\ UNCHANGED << symptoms, tests, exercises, diagnose_args, diagnose_result >>

Init ==
    /\ \E tables \in load_data :
          /\ symptoms = tables[1]
          /\ tests = tables[2]
          /\ exercises = tables[3]
    /\ query_params = <<>>
    /\ rendered = FALSE
    /\ selectbox = <<>>
    /\ checkbox = <<>>
    /\ button = FALSE
    /\ page = BlankPage
    /\ diagnose_args = <<>>
    /\ diagnose_result = <<>>

\* The browser opens the page with some URL: a new session.
Load ==
    /\ ~rendered
    /\ \E q \in QueryParams :
          /\ query_params' = q
          /\ page' = main(symptoms, tests, exercises, q, <<>>, <<>>, FALSE)
    /\ selectbox' = KeptSelectboxState(page')
    /\ checkbox' = KeptCheckboxState(page')
    /\ button' = FALSE
    /\ rendered' = TRUE
    /\ UNCHANGED << symptoms, tests, exercises, diagnose_args, diagnose_result >>

\* The browser reloads the same URL: a new session, the widget state is lost.
Reload ==
    /\ rendered
    /\ Rerun(<<>>, <<>>, FALSE)
    /\ UNCHANGED query_params

\* The user picks another body part.
SelectBodyPart ==
    /\ rendered
    /\ \E b \in { BodyParts(symptoms)[i] : i \in DOMAIN BodyParts(symptoms) } :
          /\ b # page.selected_body_part
          /\ Rerun(<< b >>, checkbox, FALSE)
    /\ UNCHANGED query_params

\* The user ticks or unticks the checkbox of a listed test.
ToggleCheckbox ==
    /\ rendered
    /\ \E k \in DOMAIN checkbox :
          Rerun(selectbox, [checkbox EXCEPT ![k] = ~@], FALSE)
    /\ UNCHANGED query_params

\* The user presses 'Get Diagnostic and Generate Exercise Plan'.
ClickButton ==
    /\ rendered
    /\ "Step 2: Perform Physical Tests" \in { page.headers[i] : i \in DOMAIN page.headers }
    /\ Rerun(selectbox, checkbox, TRUE)
    /\ UNCHANGED query_params

Next == Load \/ Reload \/ SelectBodyPart \/ ToggleCheckbox \/ ClickButton

Spec == Init /\ [][Next]_vars

---------------------------------------------------------------------------
(* The diagnosis loop on its own: any mapping, any symptom's tests.        *)

\* The dicts whose keys are the names of some of the tests, in table order.
TestResultsDicts(tests_table) ==
    { LET kept == SelectSeq(tests_table, LAMBDA t : t.test_id \in ids)
      IN  [i \in DOMAIN kept |-> << kept[i].test_name, f[kept[i].test_id] >>] :
        ids \in SUBSET { tests_table[i].test_id : i \in DOMAIN tests_table },
        f \in [1..NumTests -> BOOLEAN] }

InitDiagnose ==
    /\ \E tables \in load_data :
          /\ symptoms = tables[1]
          /\ tests = tables[2]
          /\ exercises = tables[3]
    /\ query_params = <<>>
    /\ rendered = FALSE
    /\ selectbox = <<>>
    /\ checkbox = <<>>
    /\ button = FALSE
    /\ page = BlankPage
    /\ \E sid \in SymptomIds, d \in TestResultsDicts(tests) :
          diagnose_args = [ test_results   |-> d,
                            relevant_tests |-> RelevantTests(tests, sid) ]
    /\ diagnose_result = <<>>

RunDiagnose ==
    /\ diagnose_result = <<>>
    /\ diagnose_result' =
          << Diagnose(diagnose_args.test_results, diagnose_args.relevant_tests,
                      1, {}) >>
    /\ UNCHANGED << symptoms, tests, exercises, query_params, rendered, selectbox,
                    checkbox, button, page, diagnose_args >>

NextDiagnose == RunDiagnose

SpecDiagnose == InitDiagnose /\ [][NextDiagnose]_vars

---------------------------------------------------------------------------
(* What the claims speak of.                                               *)

Elements(list) == { list[i] : i \in DOMAIN list }

Step3Shown == "Diagnostic" \in Elements(page.headers)

\* The tests of the symptom whose name is selected.
TestsOfSelected ==
    { t \in Elements(tests) :
        \E s \in Elements(symptoms) :
            /\ s.symptom_name = page.selected_body_part
            /\ t.symptom_id = s.symptom_id }

Answered(t) == HasKey(page.test_results, t.test_name)

Failed(t) == Answered(t) /\ DictGet(page.test_results, t.test_name)

FailedTestsParam ==
    IF "failed_tests" \in DOMAIN query_params
    THEN Elements(query_params["failed_tests"]) ELSE {}

ScreenFallback ==
    "No specific conditions identified. Please consult a healthcare professional."

PdfFallback == "No specific conditions identified."

---------------------------------------------------------------------------
(* C1: whenever Step 3 has run, the condition set is exactly the set of    *)
(* positive_indication values of the selected symptom's tests whose answer *)
(* is true: the condition of every failed test is in it, no condition that *)
(* only non-failed tests indicate is in it, and duplicates collapse.       *)

C1_ConditionsOfFailedTests ==
    Step3Shown =>
        /\ page.error = ""
        /\ page.conditions =
              { t.positive_indication : t \in { u \in TestsOfSelected : Failed(u) } }

\* One test failed and one not, indicating different conditions.
C1_Witness ==
    /\ Step3Shown
    /\ \E t, u \in TestsOfSelected :
          /\ Failed(t) /\ ~Failed(u)
          /\ t.positive_indication # u.positive_indication
          /\ page.conditions = { t.positive_indication }

(* C2: whenever Step 3 has run, the recommended exercises are exactly the  *)
(* rows of the exercise table whose condition is in the condition set:     *)
(* each returned row has its condition in the set, no such row is omitted, *)
(* and no row is returned twice.                                           *)

C2_ExercisesOfConditions ==
    Step3Shown =>
        /\ Elements(page.recommended_exercises) =
              { e \in Elements(exercises) : e.condition \in page.conditions }
        /\ Len(page.recommended_exercises) =
              Cardinality({ i \in DOMAIN exercises :
                              exercises[i].condition \in page.conditions })

\* Some exercises are recommended and some are left out.
C2_Witness ==
    /\ Step3Shown
    /\ page.recommended_exercises # <<>>
    /\ \E e \in Elements(exercises) : e.condition \notin page.conditions

(* C3: in every render, the tests listed and answered in Step 2 are        *)
(* exactly the tests whose symptom_id is the id of the selected symptom:   *)
(* only those are listed, all of them are, and each has one entry in the   *)
(* test-result mapping.                                                    *)

C3_TestsOfSelectedSymptom ==
    rendered =>
        /\ Elements(page.relevant_tests) = TestsOfSelected
        /\ Len(page.relevant_tests) = Cardinality(TestsOfSelected)
        /\ Elements(page.shown_tests) =
              { << t.test_name, t.description >> : t \in TestsOfSelected }
        /\ Len(page.shown_tests) = Cardinality(TestsOfSelected)
        /\ DictKeys(page.test_results) = { t.test_name : t \in TestsOfSelected }
        /\ Len(page.test_results) = Cardinality(TestsOfSelected)

\* The selected symptom has a test and the other symptom has one too.
C3_Witness ==
    /\ rendered
    /\ page.shown_tests # <<>>
    /\ Elements(tests) \ TestsOfSelected # {}
    /\ selectbox # << page.default_body_part >>

(* C4: in every render: when body_part is absent the default selection is  *)
(* the first symptom and no warning is shown; when body_part names an      *)
(* existing symptom, that symptom is the default and no warning is shown;  *)
(* otherwise a warning is shown and the default is the first symptom.      *)

C4_DefaultBodyPart ==
    rendered =>
        LET first == symptoms[1].symptom_name
            names == { s.symptom_name : s \in Elements(symptoms) }
        IN  IF "body_part" \notin DOMAIN query_params
            THEN page.default_body_part = first /\ page.warning = <<>>
            ELSE IF query_params["body_part"][1] \in names
            THEN /\ page.default_body_part = query_params["body_part"][1]
                 /\ page.warning = <<>>
            ELSE page.default_body_part = first /\ Len(page.warning) = 1

\* An invalid deep link: the warning is shown and the first symptom selected.
C4_Witness ==
    /\ rendered
    /\ "body_part" \in DOMAIN query_params
    /\ query_params["body_part"] = << "NotARealPart" >>
    /\ page.warning # <<>>
    /\ page.selected_body_part = symptoms[1].symptom_name

(* C5: in every render, Step 3 runs if and only if the confirmation button *)
(* was pressed for that render or the test_mode parameter is 'true'; when  *)
(* it does not run, no diagnosis, exercise table or document is produced.  *)

C5_Step3IffClickedOrTestMode ==
    rendered =>
        /\ Step3Shown <=>
              \/ button
              \/ /\ "test_mode" \in DOMAIN query_params
                 /\ query_params["test_mode"][1] = "true"
        /\ ~Step3Shown =>
              /\ page.conditions = {}
              /\ page.written = {}
              /\ page.html_table = <<>>
              /\ page.pdf = <<>>
              /\ page.download_button = <<>>

\* Test mode: the report is there although the button was not pressed.
C5_Witness ==
    /\ rendered
    /\ ~button
    /\ Step3Shown
    /\ page.pdf # <<>>

(* C6, as claimed: when every test answer is false, Step 3 yields the      *)
(* empty condition set and the fallback text appears both on screen and in *)
(* the document.                                                           *)

C6_AsClaimed ==
    (Step3Shown /\ \A t \in TestsOfSelected : ~Failed(t)) =>
        /\ page.conditions = {}
        /\ ScreenFallback \in page.written
        /\ page.pdf # <<>>
        /\ PdfFallback \in page.pdf[1].diagnostic

(* C6, amended: when every test answer is false, Step 3 yields the empty   *)
(* condition set and shows the fallback text on screen, and no document    *)
(* is generated in that render; generate_pdf itself renders the fallback   *)
(* sentence for an empty condition set.                                    *)

C6_EmptyDiagnosis ==
    (Step3Shown /\ \A t \in TestsOfSelected : ~Failed(t)) =>
        /\ page.conditions = {}
        /\ page.written = { ScreenFallback }
        /\ page.pdf = <<>>
        /\ page.download_button = <<>>
        /\ generate_pdf(page.test_results, page.conditions,
                        page.recommended_exercises).diagnostic = { PdfFallback }

\* Step 3 has run on a symptom with tests, none of them failed.
C6_Witness ==
    /\ Step3Shown
    /\ TestsOfSelected # {}
    /\ \A t \in TestsOfSelected : ~Failed(t)
    /\ ScreenFallback \in page.written

(* C7: in every render the on-screen exercise table and the document exist *)
(* together, and then the set of exercise names in the on-screen table     *)
(* equals the set of exercise names in the document's training-advice      *)
(* table, and every recommended exercise appears in both with its sets and *)
(* reps written as "{sets}x{reps}".                                        *)

C7_ScreenAndDocumentAgree ==
    rendered =>
        /\ page.html_table # <<>> <=> page.pdf # <<>>
        /\ page.pdf # <<>> =>
              LET screen == page.html_table[1]
                  doc    == page.pdf[1].table_data
                  rows   == { doc[j] : j \in DOMAIN doc \ {1} }
              IN  /\ { screen[i]["Name"] : i \in DOMAIN screen } =
                        { r[1] : r \in rows }
                  /\ { r[1] : r \in rows } =
                        { e.exercise_name : e \in Elements(page.recommended_exercises) }
                  /\ \A e \in Elements(page.recommended_exercises) :
                        LET text == ToString(e.sets) \o "x" \o ToString(e.reps)
                        IN  /\ \E i \in DOMAIN screen :
                                  /\ screen[i]["Name"] = e.exercise_name
                                  /\ screen[i]["Sets x Reps"] = text
                            /\ \E r \in rows :
                                  r[1] = e.exercise_name /\ r[3] = text

\* Both tables list the same two exercises.
C7_Witness ==
    /\ page.pdf # <<>>
    /\ Len(page.html_table[1]) = 2
    /\ Len(page.pdf[1].table_data) = 3
    /\ page.html_table[1][2]["Sets x Reps"] = "3x15"
    /\ page.pdf[1].table_data[3][3] = "3x15"

(* C8, as claimed: the diagnosis loop treats a relevant test whose name is *)
(* absent from the test-result mapping as not failed: it completes without *)
(* an error and yields the conditions of the tests that are present and    *)
(* failed.                                                                 *)

C9_PreFailedCheckboxes ==
    [][ rendered' =>
          /\ \A t \in TestsOfSelected' :
                /\ HasKey(page'.default_checked, t.test_name)
                /\ DictGet(page'.default_checked, t.test_name)
                      <=> ToString(t.test_id) \in FailedTestsParam'
                /\ t.test_name \notin DOMAIN checkbox =>
                      (Failed(t)' <=> ToString(t.test_id) \in FailedTestsParam')
          /\ DictKeys(page'.test_results) = { t.test_name : t \in TestsOfSelected' }
      ]_vars

\* Both ids are pre-failed; test 1 is listed and checked, test 2 belongs to
\* the other symptom and has no entry.
C9_Witness ==
    /\ rendered
    /\ "failed_tests" \in DOMAIN query_params
    /\ query_params["failed_tests"] = << "1", "2" >>
    /\ page.test_results = << << "Test 1", TRUE >> >>
    /\ \E t \in Elements(tests) \ TestsOfSelected : t.test_id = 2

(* C10: in every render, a document exists only if Step 3 has run and the  *)
(* condition set is not empty, and the download is offered exactly when    *)
(* the document exists; then at least one test of the selected symptom is  *)
(* marked failed, and every failed test the document names is a failed     *)
(* test of the selected symptom.                                           *)

C10_DocumentOnlyWithConditions ==
    rendered =>
        /\ page.download_button # <<>> <=> page.pdf # <<>>
        /\ page.pdf # <<>> =>
              /\ Step3Shown
              /\ page.conditions # {}
              /\ \E t \in TestsOfSelected : Failed(t)
              /\ \A line \in Elements(page.pdf[1].failed_tests) :
                    \E t \in TestsOfSelected :
                        Failed(t) /\ line = "- " \o t.test_name

\* A document exists, naming a failed test, while the table also holds a
\* test of another symptom.
C10_Witness ==
    /\ page.pdf # <<>>
    /\ Elements(tests) \ TestsOfSelected # {}
    /\ page.pdf[1].failed_tests # <<>>

====
